---- MODULE Spec2Model ----
(***************************************************************************)
(* Dublin infrastructure ground-motion pipeline:                           *)
(*   scripts/step1_create_buffers.py        (Buffer Builder)               *)
(*   scripts/step2_find_points_in_buffers.py (Zone Join)                   *)
(*   scripts/step3_calculate_statistics.py  (Statistics & Risk Engine)     *)
(* The three scripts communicate only through files, so the state is the   *)
(* content of the data directory plus the values the last script run held  *)
(* in memory.                                                              *)
(***************************************************************************)
EXTENDS Integers, Sequences, FiniteSets, TLC

VARIABLES
    disk,             \* file name -> file content (see NoFile)
    script,           \* the script that ran last: "none", "step1", "step2", "step3", "engine"
    outcome,          \* how that run ended: "none", "completed", or the exception raised
    wrote,            \* the files that run wrote, in order
    faults,           \* number of write errors the file system has raised so far
    stats,            \* step3: name -> dict returned by calculate_stats
    comparison,       \* step3: list of comparison dicts (lines 146-166)
    risk_assessment   \* step3: list of risk dicts (lines 181-207)

vars == <<disk, script, outcome, wrote, faults, stats, comparison, risk_assessment>>

-----------------------------------------------------------------------------
(* Numbers.  A float is kept as the exact rational it stands for, or as one *)
(* of the IEEE specials numpy produces instead of raising: nan, +inf, -inf. *)
(*   [k |-> "fin", n |-> numerator, d |-> denominator > 0]  (lowest terms)  *)
(*   [k |-> "nan", n |-> 0, d |-> 1]                                        *)
(*   [k |-> "inf", n |-> 1 or -1, d |-> 1]                                  *)

RECURSIVE GCD(_, _)
GCD(a, b) == IF b = 0 THEN a ELSE GCD(b, a % b)

AbsInt(i) == IF i < 0 THEN -i ELSE i

Fin(n, d) ==
    LET s == IF d < 0 THEN -1 ELSE 1
        g == GCD(AbsInt(n), AbsInt(d))
    IN  [k |-> "fin", n |-> (s * n) \div g, d |-> (s * d) \div g]

NaN == [k |-> "nan", n |-> 0, d |-> 1]
Inf(sign) == [k |-> "inf", n |-> sign, d |-> 1]
Num(i) == Fin(i, 1)

IsFin(x) == x.k = "fin"
IsNaN(x) == x.k = "nan"
IsInf(x) == x.k = "inf"
Sign(x) == IF x.n > 0 THEN 1 ELSE IF x.n < 0 THEN -1 ELSE 0

\* float comparisons: every comparison with nan is False
Lt(x, y) ==
    /\ ~IsNaN(x) /\ ~IsNaN(y)
    /\ IF IsFin(x) /\ IsFin(y) THEN x.n * y.d < y.n * x.d
       ELSE IF IsInf(x) /\ IsInf(y) THEN x.n < y.n
       ELSE IF IsInf(x) THEN x.n < 0
       ELSE y.n > 0
Eq(x, y) == ~IsNaN(x) /\ ~IsNaN(y) /\ x = y
Le(x, y) == Lt(x, y) \/ Eq(x, y)
Gt(x, y) == Lt(y, x)
Ge(x, y) == Le(y, x)

Neg(x) == IF IsNaN(x) THEN NaN ELSE [x EXCEPT !.n = -x.n]
Abs(x) == IF IsNaN(x) THEN NaN ELSE [x EXCEPT !.n = AbsInt(x.n)]

Add(x, y) ==
    IF IsNaN(x) \/ IsNaN(y) THEN NaN
    ELSE IF IsInf(x) /\ IsInf(y) THEN (IF x.n = y.n THEN x ELSE NaN)
    ELSE IF IsInf(x) THEN x
    ELSE IF IsInf(y) THEN y
    ELSE Fin(x.n * y.d + y.n * x.d, x.d * y.d)
Sub(x, y) == Add(x, Neg(y))

Mul(x, y) ==
    IF IsNaN(x) \/ IsNaN(y) THEN NaN
    ELSE IF IsInf(x) \/ IsInf(y)
         THEN (IF Sign(x) * Sign(y) = 0 THEN NaN ELSE Inf(Sign(x) * Sign(y)))
    ELSE Fin(x.n * y.n, x.d * y.d)

\* numpy float64 division: x/0 is +-inf, 0/0 is nan (a RuntimeWarning, no exception)
Div(x, y) ==
    IF IsNaN(x) \/ IsNaN(y) THEN NaN
    ELSE IF IsInf(x) THEN (IF IsInf(y) THEN NaN
                           ELSE Inf(x.n * (IF y.n < 0 THEN -1 ELSE 1)))
    ELSE IF IsInf(y) THEN Num(0)
    ELSE IF y.n = 0 THEN (IF x.n = 0 THEN NaN ELSE Inf(Sign(x)))
    ELSE Fin(x.n * y.d, x.d * y.n)

\* floor of the rational n/d, d > 0
FloorDiv(n, d) == IF n >= 0 THEN n \div d ELSE -((-n + d - 1) \div d)

\* Series.round(decimals): numpy rounds half to even; nan and inf pass through
Round(x, decimals) ==
    IF ~IsFin(x) THEN x
    ELSE LET p == IF decimals = 2 THEN 100 ELSE IF decimals = 1 THEN 10 ELSE 1
             a == x.n * p
             q == FloorDiv(a, x.d)
             r == a - q * x.d
             up == 2 * r > x.d \/ (2 * r = x.d /\ q % 2 # 0)
         IN  Fin(IF up THEN q + 1 ELSE q, p)

-----------------------------------------------------------------------------
(* step3_calculate_statistics.py: calculate_stats                          *)

Classes == <<"Railways", "Roads", "Harbour">>
ClassSet == {Classes[i] : i \in 1..Len(Classes)}
Baseline == "All Dublin (Baseline)"

\* A percentage `count / len(data) * 100` is kept as the two integers that
\* determine the double: [c |-> count, len |-> len(data)].
Pct(count, len) == [c |-> count, len |-> len]

\* the real number a percentage stands for (0/0 is nan)
PctNum(p) == Mul(Div(Num(p.c), Num(p.len)), Num(100))

\* Arithmetic of lines 72-74 in IEEE-754 binary64, round-to-nearest-even.
\* PowMod2(e, m) is 2^e mod m; Exponent(c, len) is the least j with
\* c * 2^j >= len, so that c / len * 2^j lies in [1, 2).
RECURSIVE PowMod2(_, _)
PowMod2(e, m) == IF e = 0 THEN 1 % m ELSE (2 * PowMod2(e - 1, m)) % m

RECURSIVE Pow2(_)
Pow2(e) == IF e = 0 THEN 1 ELSE 2 * Pow2(e - 1)

RECURSIVE Exponent(_, _)
Exponent(c, len) == IF c >= len THEN 0 ELSE 1 + Exponent(2 * c, len)

\* The double `count / len(data) * 100`, for 0 <= count <= len and len > 0, as
\* the pair [E, k] with   double = 100 * count / len  -  E / (len * 2^k).
\* The division rounds c * 2^k / len to the integer Q of 53 bits (remainder r,
\* ties to even); the product 100 * Q has 59 or 60 bits and is rounded to 53
\* (t = 6 or 7 bits dropped, remainder s2, ties to even).  The low bits of Q
\* come from c * 2^k modulo multiples of len.
F64Pct(p) ==
    IF p.c = 0 THEN [E |-> 0, k |-> 52]
    ELSE
    LET c == p.c
        n == p.len
        j == Exponent(c, n)
        k == 52 + j
        AMod(M) == ((c % M) * PowMod2(k, M)) % M
        r0 == AMod(n)
        q0odd == ((AMod(2 * n) - r0) \div n) % 2 = 1
        up == 2 * r0 > n \/ (2 * r0 = n /\ q0odd)
        r == IF up THEN r0 - n ELSE r0
        Qm == (((AMod(256 * n) - r0) \div n) + (IF up THEN 1 ELSE 0)) % 256
        D == 100 * c * Pow2(j) - 128 * n
        t == IF D < 0 \/ (D = 0 /\ r > 0) THEN 6 ELSE 7
        s == (100 * Qm) % Pow2(t)
        fodd == (((100 * Qm) % Pow2(t + 1)) - s) \div Pow2(t) = 1
        u == s > Pow2(t - 1) \/ (s = Pow2(t - 1) /\ fodd)
        s2 == IF u THEN s - Pow2(t) ELSE s
    IN  [E |-> 100 * r + s2 * n, k |-> k]

\* a + b <= 100 + m / 2^47 for two percentages over the same len > 0, on the
\* exact values of the two doubles.  With d = a.c + b.c - len and
\* T = Ea * 2^(K-ka) + Eb * 2^(K-kb), K = max(ka, kb) >= 52, the inequality is
\* 100 * d * 2^K - T <= m * len * 2^(K-47); |T| and the right side are below
\* 2^K, so d decides unless d = 0.  (m = 1: the double a + b, rounded to
\* nearest, is <= 100.0, the spacing of doubles at 100 being 2^-46.)
PctSumWithin(a, b, m) ==
    LET fa == F64Pct(a)
        fb == F64Pct(b)
        K == IF fa.k > fb.k THEN fa.k ELSE fb.k
        d == a.c + b.c - a.len
        T == fa.E * Pow2(K - fa.k) + fb.E * Pow2(K - fb.k)
    IN  IF d # 0 THEN d < 0 ELSE 0 - T <= m * a.len * Pow2(K - 47)

RECURSIVE SumSeq(_)
SumSeq(vs) == IF vs = <<>> THEN Num(0) ELSE Add(vs[1], SumSeq(Tail(vs)))

\* k-th smallest element of a non-empty sequence of finite numbers
KthSmallest(vs, k) ==
    CHOOSE v \in {vs[i] : i \in 1..Len(vs)} :
        /\ Cardinality({i \in 1..Len(vs) : Lt(vs[i], v)}) < k
        /\ Cardinality({i \in 1..Len(vs) : Le(vs[i], v)}) >= k

Mean(vs) == IF vs = <<>> THEN NaN ELSE Div(SumSeq(vs), Num(Len(vs)))

Median(vs) ==
    LET n == Len(vs)
    IN  IF n = 0 THEN NaN
        ELSE IF n % 2 = 1 THEN KthSmallest(vs, (n + 1) \div 2)
        ELSE Div(Add(KthSmallest(vs, n \div 2), KthSmallest(vs, n \div 2 + 1)), Num(2))

Min(vs) == IF vs = <<>> THEN NaN ELSE KthSmallest(vs, 1)
Max(vs) == IF vs = <<>> THEN NaN ELSE KthSmallest(vs, Len(vs))

\* variant of CountSubsiding: a zero velocity counted as subsiding
CountSubsiding_le(vs) == Cardinality({i \in 1..Len(vs) : Le(vs[i], Num(0))})

CountSubsiding(vs) == Cardinality({i \in 1..Len(vs) : Lt(vs[i], Num(0))})
CountUplifting(vs) == Cardinality({i \in 1..Len(vs) : Gt(vs[i], Num(0))})
\* variant of CountStable: the band taken without its end points
CountStable_strict(vs) ==
    Cardinality({i \in 1..Len(vs) : Gt(vs[i], Num(-2)) /\ Lt(vs[i], Num(2))})

CountStable(vs) ==
    Cardinality({i \in 1..Len(vs) : Ge(vs[i], Num(-2)) /\ Le(vs[i], Num(2))})

\* calculate_stats(data, name).  data is the list of rows of a CSV file; no
\* row carries a 'risk_level' column, so the branch of line 78 is not taken.
\* Std_Velocity (a square root) is left out: nothing below reads it.
calculate_stats(data, name) ==
    LET velocities == [i \in 1..Len(data) |-> data[i].velocity]
    IN  [Infrastructure  |-> name,
         N_Points        |-> Len(data),
         Mean_Velocity   |-> Mean(velocities),
         Median_Velocity |-> Median(velocities),
         Min_Velocity    |-> Min(velocities),
         Max_Velocity    |-> Max(velocities),
         Range           |-> Sub(Max(velocities), Min(velocities)),
         Pct_Subsiding   |-> Pct(CountSubsiding(velocities), Len(data)),
         Pct_Uplifting   |-> Pct(CountUplifting(velocities), Len(data)),
         Pct_Stable      |-> Pct(CountStable(velocities), Len(data))]

\* summary_df row: the float columns rounded to two decimals (lines 110-117)
SummaryRow(s) ==
    [Infrastructure  |-> s.Infrastructure,
     N_Points        |-> s.N_Points,
     Mean_Velocity   |-> Round(s.Mean_Velocity, 2),
     Median_Velocity |-> Round(s.Median_Velocity, 2),
     Min_Velocity    |-> Round(s.Min_Velocity, 2),
     Max_Velocity    |-> Round(s.Max_Velocity, 2),
     Range           |-> Round(s.Range, 2),
     Pct_Subsiding   |-> Round(PctNum(s.Pct_Subsiding), 2),
     Pct_Stable      |-> Round(PctNum(s.Pct_Stable), 2),
     Pct_Uplifting   |-> Round(PctNum(s.Pct_Uplifting), 2)]

-----------------------------------------------------------------------------
(* step3: comparison with the Dublin baseline (lines 144-170)              *)

Assessment(diff) ==
    IF Lt(diff, Num(0)) THEN "More stable (less subsidence)"
    ELSE IF Gt(diff, Num(0)) THEN "Less stable (more subsidence)"
    ELSE "Same as baseline"

\* one iteration of the loop of line 147
ComparisonEntry(s, dublin_mean) ==
    LET diff == Sub(s.Mean_Velocity, dublin_mean)
        pct_diff == Mul(Div(diff, Abs(dublin_mean)), Num(100))
    IN  [Infrastructure  |-> s.Infrastructure,
         Mean_Velocity   |-> s.Mean_Velocity,
         Dublin_Baseline |-> dublin_mean,
         Difference      |-> diff,
         Pct_Difference  |-> pct_diff,
         Assessment      |-> Assessment(diff)]

ComparisonLoop(st) ==
    [i \in 1..Len(Classes) |->
        ComparisonEntry(st[Classes[i]], st[Baseline].Mean_Velocity)]

\* comparison_df row: Difference and Pct_Difference rounded (lines 168-170)
ComparisonRow(e) ==
    [e EXCEPT !.Difference = Round(e.Difference, 2),
              !.Pct_Difference = Round(e.Pct_Difference, 1)]

-----------------------------------------------------------------------------
(* step3: risk assessment (lines 181-209)                                  *)

\* `pct_stable >= t` on the double c / len * 100 (nan compares False)
PctGe(p, t) == p.len # 0 /\ 100 * p.c >= t * p.len

\* variants of RiskLevel: a strict first comparison; max_vel read in the second rule
RiskLevel_strict(mean_vel, max_vel, pct_stable) ==
    IF Lt(mean_vel, Num(2)) /\ PctGe(pct_stable, 95) THEN "LOW"
    ELSE IF Le(mean_vel, Num(5)) /\ PctGe(pct_stable, 90) THEN "MODERATE"
    ELSE "ELEVATED"

RiskLevel_max(mean_vel, max_vel, pct_stable) ==
    IF Le(mean_vel, Num(2)) /\ PctGe(pct_stable, 95) THEN "LOW"
    ELSE IF Le(max_vel, Num(5)) /\ PctGe(pct_stable, 90) THEN "MODERATE"
    ELSE "ELEVATED"

RiskLevel(mean_vel, max_vel, pct_stable) ==
    IF Le(mean_vel, Num(2)) /\ PctGe(pct_stable, 95) THEN "LOW"
    ELSE IF Le(mean_vel, Num(5)) /\ PctGe(pct_stable, 90) THEN "MODERATE"
    ELSE "ELEVATED"

RecommendedAction(risk) ==
    IF risk = "LOW" THEN "Continue routine monitoring"
    ELSE IF risk = "MODERATE" THEN "Increased monitoring recommended"
    ELSE "Detailed investigation required"

\* one iteration of the loop of line 183
RiskEntry(s) ==
    LET mean_vel == Abs(s.Mean_Velocity)
        max_vel == Abs(s.Max_Velocity)
        pct_stable == s.Pct_Stable
        risk == RiskLevel(mean_vel, max_vel, pct_stable)
    IN  [Infrastructure     |-> s.Infrastructure,
         Mean_Velocity      |-> s.Mean_Velocity,
         Max_Velocity       |-> s.Max_Velocity,
         Pct_Stable         |-> s.Pct_Stable,
         Risk_Level         |-> risk,
         Recommended_Action |-> RecommendedAction(risk)]

RiskLoop(st) == [i \in 1..Len(Classes) |-> RiskEntry(st[Classes[i]])]

-----------------------------------------------------------------------------
(* Files.  A file that does not exist is NoFile; a vector layer (GeoPackage) *)
(* is [exists, crs, rows]; a table (CSV) is [exists, rows].                  *)

InfraFile ==
    [Railways |-> "Dublin_rails_clipped.gpkg",
     Roads    |-> "Dublin_roads_clipped.gpkg",
     Harbour  |-> "Dublin_Hourbor_Clipped.gpkg"]
EgmsGpkg == "egms_dublin_clean.gpkg"
EgmsCsv == "egms_dublin_clean.csv"

BufferFile ==
    [Railways |-> "railways_buffer_50m.gpkg",
     Roads    |-> "roads_buffer_30m.gpkg",
     Harbour  |-> "harbour_boundary.gpkg"]
DissolvedFile ==
    [Railways |-> "railways_buffer_dissolved.gpkg",
     Roads    |-> "roads_buffer_dissolved.gpkg",
     Harbour  |-> "harbour_boundary_dissolved.gpkg"]
PointsCsv ==
    [Railways |-> "railways_points.csv",
     Roads    |-> "roads_points.csv",
     Harbour  |-> "harbour_points.csv"]
PointsGpkg ==
    [Railways |-> "railways_points.gpkg",
     Roads    |-> "roads_points.gpkg",
     Harbour  |-> "harbour_points.gpkg"]
SummaryFile == "infrastructure_summary.csv"
ComparisonFile == "infrastructure_comparison.csv"
RiskFile == "infrastructure_risk_assessment.csv"

InputFiles == {InfraFile[c] : c \in ClassSet} \cup {EgmsGpkg, EgmsCsv}
Step1Outputs == {BufferFile[c] : c \in ClassSet} \cup {DissolvedFile[c] : c \in ClassSet}
Step2Outputs == {PointsCsv[c] : c \in ClassSet} \cup {PointsGpkg[c] : c \in ClassSet}
Step3Outputs == {SummaryFile, ComparisonFile, RiskFile}
FileNames == InputFiles \cup Step1Outputs \cup Step2Outputs \cup Step3Outputs

NoFile == [exists |-> FALSE]
Layer(crs, rows) == [exists |-> TRUE, crs |-> crs, rows |-> rows]
Table(rows) == [exists |-> TRUE, rows |-> rows]

SOURCE_CRS == "EPSG:4326"
TARGET_CRS == "EPSG:2157"

-----------------------------------------------------------------------------
(* Geometry.  The map is cut along one axis that crosses the rail line, the *)
(* road line and the harbour at right angles.  A geometry is a set of       *)
(* closed intervals [lo, hi] on that axis: a line crossing the axis is an   *)
(* interval with lo = hi, a polygon one with lo < hi.                       *)

Interval(lo, hi) == [lo |-> lo, hi |-> hi]

\* GeoSeries.to_crs: coordinates of the source system become ITM metres
MetresPerUnit == 10
Project(x) == x * MetresPerUnit
ProjectGeom(g) == {Interval(Project(iv.lo), Project(iv.hi)) : iv \in g}

to_crs(layer, target) ==
    IF layer.crs = target THEN layer
    ELSE [layer EXCEPT
            !.crs = target,
            !.rows = [i \in 1..Len(layer.rows) |->
                        [layer.rows[i] EXCEPT !.geometry = ProjectGeom(@)]]]

\* the intervals of S that overlap or touch one of C
Touching(C, S) ==
    {iv \in S : \E c \in C : iv.lo <= c.hi /\ c.lo <= iv.hi}

RECURSIVE Component(_, _)
Component(C, S) ==
    LET D == C \cup Touching(C, S)
    IN  IF D = C THEN C ELSE Component(D, S)

Lowest(C) == CHOOSE x \in {iv.lo : iv \in C} : \A iv \in C : x <= iv.lo
Highest(C) == CHOOSE x \in {iv.hi : iv \in C} : \A iv \in C : x >= iv.hi

\* unary union: overlapping and touching parts merge into one
UnaryUnion(S) ==
    {Interval(Lowest(Component({iv}, S)), Highest(Component({iv}, S))) : iv \in S}

\* GeoSeries.buffer(distance): everything within `distance` of the geometry
buffer(g, distance) ==
    UnaryUnion({Interval(iv.lo - distance, iv.hi + distance) : iv \in g})

\* variant of within: a point on the boundary counts (predicate 'intersects')
within_closed(p, g) ==
    \A pv \in p : \E iv \in g : iv.lo <= pv.lo /\ pv.hi <= iv.hi

\* Point(x): the geometry of a measurement point
Point(x) == {Interval(x, x)}

\* predicate 'within' of a point p and an areal geometry g: the point lies in
\* the interior of g; a point on the boundary of g is not within it
within(p, g) ==
    \A pv \in p : \E iv \in g : iv.lo < pv.lo /\ pv.hi < iv.hi

-----------------------------------------------------------------------------
(* Script runs.  A run is planned from the files it reads: either it raises *)
(* before its save section (err), or it reaches the save section with the   *)
(* list of writes it will make, in order.                                   *)

Range(seq) == {seq[i] : i \in 1..Len(seq)}

Abort(err) == [err |-> err, writes |-> <<>>]
Save(writes) == [err |-> "none", writes |-> writes]

Missing(d, files) == \E f \in files : ~d[f].exists

\* variant of Written: a write appends to the rows a file already holds
RECURSIVE Written_append(_, _, _)
Written_append(d, writes, k) ==
    IF k = 0 THEN d
    ELSE LET before == Written_append(d, writes, k - 1)
             old == before[writes[k].file]
         IN  [before EXCEPT ![writes[k].file] =
                 IF old.exists
                 THEN [writes[k].content EXCEPT !.rows = old.rows \o @]
                 ELSE writes[k].content]

RECURSIVE Written(_, _, _)
Written(d, writes, k) ==
    IF k = 0 THEN d
    ELSE [Written(d, writes, k - 1) EXCEPT ![writes[k].file] = writes[k].content]

FilesOf(writes, k) == [i \in 1..k |-> writes[i].file]

\* the run of `name` planned as `plan`, every write succeeding; mem is what
\* step3 holds in memory
Run(name, plan, mem) ==
    /\ script' = name
    /\ stats' = mem.stats
    /\ comparison' = mem.comparison
    /\ risk_assessment' = mem.risk_assessment
    /\ outcome' = IF plan.err # "none" THEN plan.err ELSE "completed"
    /\ disk' = Written(disk, plan.writes, Len(plan.writes))
    /\ wrote' = FilesOf(plan.writes, Len(plan.writes))
    /\ UNCHANGED faults

\* the same run on a file system that fails: the k-th to_file / to_csv raises
\* OSError.  Each write is its own call and nothing is rolled back, so the
\* run ends with its first k - 1 writes on disk.
MaxFaults == 1

RunFault(name, plan, mem) ==
    /\ plan.err = "none"
    /\ faults < MaxFaults
    /\ script' = name
    /\ stats' = mem.stats
    /\ comparison' = mem.comparison
    /\ risk_assessment' = mem.risk_assessment
    /\ outcome' = "OSError"
    /\ \E k \in 1..Len(plan.writes) :
          /\ disk' = Written(disk, plan.writes, k - 1)
          /\ wrote' = FilesOf(plan.writes, k - 1)
    /\ faults' = faults + 1

NoMem == [stats |-> <<>>, comparison |-> <<>>, risk_assessment |-> <<>>]

-----------------------------------------------------------------------------
(* step1_create_buffers.py                                                 *)

BUFFER_RAILWAYS == 50
BUFFER_ROADS == 30
BUFFER_HARBOUR == 0

\* STEP 3: the layer with every feature expanded and tagged (lines 84-105);
\* the harbour layer keeps its geometry
CreateBuffer(layer_itm, class) ==
    LET radius == IF class = "Railways" THEN BUFFER_RAILWAYS
                  ELSE IF class = "Roads" THEN BUFFER_ROADS ELSE 0
    IN  [layer_itm EXCEPT !.rows =
            [i \in 1..Len(layer_itm.rows) |->
                [geometry   |-> IF class = "Harbour" THEN layer_itm.rows[i].geometry
                                ELSE buffer(layer_itm.rows[i].geometry, radius),
                 infra_type |-> class,
                 buffer_m   |-> radius]]]

\* variant of Dissolve: the features are left as they are, one row each
Dissolve_rows(layer) == layer

\* STEP 4: GeoDataFrame.dissolve(by='infra_type'): one row per infra_type,
\* its geometry the union of the group, its other columns those of the first row
Dissolve(layer) ==
    LET types == {layer.rows[i].infra_type : i \in 1..Len(layer.rows)}
        First(t) == CHOOSE i \in 1..Len(layer.rows) :
                        /\ layer.rows[i].infra_type = t
                        /\ \A j \in 1..(i - 1) : layer.rows[j].infra_type # t
        Group(t) == {i \in 1..Len(layer.rows) : layer.rows[i].infra_type = t}
        RowOf(t) == [geometry   |-> UnaryUnion(UNION {layer.rows[i].geometry : i \in Group(t)}),
                     infra_type |-> t,
                     buffer_m   |-> layer.rows[First(t)].buffer_m]
    IN  [layer EXCEPT !.rows =
            IF types = {} THEN <<>>
            ELSE LET t == CHOOSE t \in types : TRUE IN <<RowOf(t)>>]

Step1Plan(d) ==
    IF Missing(d, {InfraFile[c] : c \in ClassSet}) THEN Abort("FileNotFoundError")
    ELSE
      LET buf == [c \in ClassSet |-> CreateBuffer(to_crs(d[InfraFile[c]], TARGET_CRS), c)]
          dis == [c \in ClassSet |-> Dissolve(buf[c])]
      IN  Save(<<[file |-> BufferFile["Railways"], content |-> buf["Railways"]],
                 [file |-> BufferFile["Roads"], content |-> buf["Roads"]],
                 [file |-> BufferFile["Harbour"], content |-> buf["Harbour"]],
                 [file |-> DissolvedFile["Railways"], content |-> dis["Railways"]],
                 [file |-> DissolvedFile["Roads"], content |-> dis["Roads"]],
                 [file |-> DissolvedFile["Harbour"], content |-> dis["Harbour"]]>>)

Step1 == \E plan \in {Step1Plan(disk)} : Run("step1", plan, NoMem)
Step1Fault == \E plan \in {Step1Plan(disk)} : RunFault("step1", plan, NoMem)

-----------------------------------------------------------------------------
(* step2_find_points_in_buffers.py                                         *)

\* gpd.sjoin(egms_data, buffer_data, how='inner', predicate='within'): one row
\* per (point, buffer row) pair that matches, in the order of the points,
\* with the columns of both
RECURSIVE sjoin(_, _)
sjoin(points, zones) ==
    IF points = <<>> THEN <<>>
    ELSE LET pt == points[1]
             hits == SelectSeq(zones, LAMBDA z : within(pt.geometry, z.geometry))
         IN  [j \in 1..Len(hits) |->
                 [geometry    |-> pt.geometry,
                  velocity    |-> pt.velocity,
                  index_right |-> j - 1,
                  infra_type  |-> hits[j].infra_type,
                  buffer_m    |-> hits[j].buffer_m]]
             \o sjoin(Tail(points), zones)

\* find_points_in_buffer (lines 74-108): the matches, labelled when there are any
find_points_in_buffer(egms_data, buffer_data, infrastructure_name) ==
    LET points_inside == sjoin(egms_data.rows, buffer_data.rows)
    IN  [egms_data EXCEPT !.rows =
            [i \in 1..Len(points_inside) |->
                [geometry       |-> points_inside[i].geometry,
                 velocity       |-> points_inside[i].velocity,
                 index_right    |-> points_inside[i].index_right,
                 infra_type     |-> points_inside[i].infra_type,
                 buffer_m       |-> points_inside[i].buffer_m,
                 infrastructure |-> infrastructure_name]]]

\* DataFrame.drop(columns=['geometry'])
DropGeometry(layer) ==
    Table([i \in 1..Len(layer.rows) |->
              [velocity       |-> layer.rows[i].velocity,
               index_right    |-> layer.rows[i].index_right,
               infra_type     |-> layer.rows[i].infra_type,
               buffer_m       |-> layer.rows[i].buffer_m,
               infrastructure |-> layer.rows[i].infrastructure]])

\* variant of CallEffect: the label is assigned on the frame passed in
CallEffect_inplace(egms_data, buffer_data, infrastructure_name) ==
    LET labelled == [egms_data EXCEPT !.rows =
                        [i \in 1..Len(egms_data.rows) |->
                            [geometry       |-> egms_data.rows[i].geometry,
                             velocity       |-> egms_data.rows[i].velocity,
                             infrastructure |-> infrastructure_name]]]
    IN  [egms_data |-> labelled,
         returned  |-> find_points_in_buffer(labelled, buffer_data, infrastructure_name)]

\* one call of find_points_in_buffer: the frame returned, and the caller's
\* egms_data as the call leaves it.  sjoin builds a new frame and line 94
\* assigns the label on that frame, so egms_data is left as it was.
CallEffect(egms_data, buffer_data, infrastructure_name) ==
    [egms_data |-> egms_data,
     returned  |-> find_points_in_buffer(egms_data, buffer_data, infrastructure_name)]

\* the three calls of lines 111-113, from the i-th on: each is handed the
\* egms_itm the calls before it left
RECURSIVE Step2Calls(_, _, _)
Step2Calls(d, egms_itm, i) ==
    IF i > Len(Classes) THEN <<>>
    ELSE LET e == CallEffect(egms_itm, d[DissolvedFile[Classes[i]]], Classes[i])
         IN  <<[given |-> egms_itm, left |-> e.egms_data, returned |-> e.returned]>>
             \o Step2Calls(d, e.egms_data, i + 1)

\* variant of ZonePoints: a point matched by an earlier class is taken out of
\* the set handed to the later ones
ZonePoints_priority(d) ==
    LET egms_itm == to_crs(d[EgmsGpkg], TARGET_CRS)
        Taken(c, row) ==
            \E k \in 1..Len(Classes) :
                /\ \E j \in (k + 1)..Len(Classes) : Classes[j] = c
                /\ \E z \in Range(d[DissolvedFile[Classes[k]]].rows) :
                        within(row.geometry, z.geometry)
        Left(c) == [egms_itm EXCEPT !.rows = SelectSeq(@, LAMBDA row : ~Taken(c, row))]
    IN  [c \in ClassSet |-> find_points_in_buffer(Left(c), d[DissolvedFile[c]], c)]

\* the zone point sets of a run (lines 111-113)
ZonePoints(d) ==
    LET egms_itm == to_crs(d[EgmsGpkg], TARGET_CRS)
        calls == Step2Calls(d, egms_itm, 1)
    IN  [c \in ClassSet |->
            calls[CHOOSE i \in 1..Len(Classes) : Classes[i] = c].returned]

\* variant of SaveNonEmpty: every class is saved, empty or not
RECURSIVE SaveNonEmpty_always(_, _, _)
SaveNonEmpty_always(zp, i, csv) ==
    IF i > Len(Classes) THEN <<>>
    ELSE LET c == Classes[i]
             w == IF csv THEN [file |-> PointsCsv[c], content |-> DropGeometry(zp[c])]
                  ELSE [file |-> PointsGpkg[c], content |-> zp[c]]
         IN  <<w>> \o SaveNonEmpty_always(zp, i + 1, csv)

\* STEP 4 (lines 125-151): a class is saved only `if len(points) > 0`
RECURSIVE SaveNonEmpty(_, _, _)
SaveNonEmpty(zp, i, csv) ==
    IF i > Len(Classes) THEN <<>>
    ELSE LET c == Classes[i]
             w == IF csv THEN [file |-> PointsCsv[c], content |-> DropGeometry(zp[c])]
                  ELSE [file |-> PointsGpkg[c], content |-> zp[c]]
         IN  (IF Len(zp[c].rows) > 0 THEN <<w>> ELSE <<>>) \o SaveNonEmpty(zp, i + 1, csv)

Step2Plan(d) ==
    IF Missing(d, {EgmsGpkg} \cup {DissolvedFile[c] : c \in ClassSet})
    THEN Abort("FileNotFoundError")
    ELSE LET zp == ZonePoints(d)
         IN  Save(SaveNonEmpty(zp, 1, TRUE) \o SaveNonEmpty(zp, 1, FALSE))

Step2 == \E plan \in {Step2Plan(disk)} : Run("step2", plan, NoMem)
Step2Fault == \E plan \in {Step2Plan(disk)} : RunFault("step2", plan, NoMem)

-----------------------------------------------------------------------------
(* step3_calculate_statistics.py, as a whole                               *)

Step3Inputs == {PointsCsv[c] : c \in ClassSet} \cup {EgmsCsv}

\* lines 89-92
AllStats(d) ==
    [z \in ClassSet \cup {Baseline} |->
        IF z = Baseline THEN calculate_stats(d[EgmsCsv].rows, Baseline)
        ELSE calculate_stats(d[PointsCsv[z]].rows, z)]

\* lines 103-108: baseline first, then the classes
SummaryTable(st) ==
    Table(<<SummaryRow(st[Baseline])>> \o
          [i \in 1..Len(Classes) |-> SummaryRow(st[Classes[i]])])

ComparisonTable(cmp) == Table([i \in 1..Len(cmp) |-> ComparisonRow(cmp[i])])

\* what the script holds once STEP 5 is done (lines 89-209); nothing when a
\* read_csv of lines 40-43 raised
Step3Mem(d) ==
    IF Missing(d, Step3Inputs) THEN NoMem
    ELSE LET st == CHOOSE st \in {AllStats(d)} : TRUE
         IN  [stats |-> st,
              comparison |-> ComparisonLoop(st),
              risk_assessment |-> RiskLoop(st)]

\* STEP 6 (lines 220-235)
Step3Plan(d, m) ==
    IF Missing(d, Step3Inputs) THEN Abort("FileNotFoundError")
    ELSE Save(<<[file |-> SummaryFile, content |-> SummaryTable(m.stats)],
                [file |-> ComparisonFile, content |-> ComparisonTable(m.comparison)],
                [file |-> RiskFile, content |-> Table(m.risk_assessment)]>>)

Step3 ==
    \E m \in {Step3Mem(disk)} :
        \E plan \in {Step3Plan(disk, m)} : Run("step3", plan, m)
Step3Fault ==
    \E m \in {Step3Mem(disk)} :
        \E plan \in {Step3Plan(disk, m)} : RunFault("step3", plan, m)

-----------------------------------------------------------------------------
(* Spec: the three scripts run in any order, any number of times, on the    *)
(* input files drawn below.                                                 *)

MaxPoints == 2
MaxFeatures == 2

\* positions on the axis, in units of the source system (10 m each): the rail
\* line at 100 m, the road at 160 m, the harbour basin from 190 m to 250 m
RailFeatures == <<Interval(10, 10), Interval(4, 4), Interval(10, 10)>>
RoadFeatures == <<Interval(16, 16), Interval(16, 16), Interval(17, 17)>>
HarbourFeatures == <<Interval(19, 22), Interval(22, 25), Interval(19, 25)>>

Prefix(features, n) ==
    [i \in 1..(IF n < Len(features) THEN n ELSE Len(features)) |->
        [geometry |-> {features[i]}]]

\* 40 m, 50 m and 60 m from the rail line, and inside the harbour
PointXs == {14, 15, 16, 20}
VelSet == {Num(-3), Num(2)}

PointRows == {[geometry |-> Point(x), velocity |-> v] : x \in PointXs, v \in VelSet}

SeqsUpTo(S, n) == UNION {[1..k -> S] : k \in 0..n}

\* the rows of egms_dublin_clean.csv: the baseline the zones are compared with
BaselineCols ==
    {<<>>, <<[velocity |-> Num(0)]>>, <<[velocity |-> Num(-3)]>>,
     <<[velocity |-> Num(-3)], [velocity |-> Num(2)]>>,
     <<[velocity |-> Fin(-1, 8)], [velocity |-> Fin(1, 8)]>>}

Init ==
    /\ \E n \in 1..MaxFeatures, pts \in SeqsUpTo(PointRows, MaxPoints), base \in BaselineCols :
        disk = [f \in FileNames |->
                  IF f = InfraFile["Railways"] THEN Layer(SOURCE_CRS, Prefix(RailFeatures, n))
                  ELSE IF f = InfraFile["Roads"] THEN Layer(SOURCE_CRS, Prefix(RoadFeatures, n))
                  ELSE IF f = InfraFile["Harbour"] THEN Layer(SOURCE_CRS, Prefix(HarbourFeatures, n))
                  ELSE IF f = EgmsGpkg THEN Layer(SOURCE_CRS, pts)
                  ELSE IF f = EgmsCsv THEN Table(base)
                  ELSE NoFile]
    /\ script = "none"
    /\ outcome = "none"
    /\ wrote = <<>>
    /\ faults = 0
    /\ stats = <<>>
    /\ comparison = <<>>
    /\ risk_assessment = <<>>

Next == Step1 \/ Step2 \/ Step3

Spec == Init /\ [][Next]_vars

\* SpecFaults: the same runs on a file system that may raise on a write
NextFaults == Next \/ Step1Fault \/ Step2Fault \/ Step3Fault

SpecFaults == Init /\ [][NextFaults]_vars

-----------------------------------------------------------------------------
(* SpecEngine: the comparison and risk loops of step3 (lines 144-209) run   *)
(* on statistics dicts drawn from a grid around the thresholds 2, 5, 90 and *)
(* 95.  A dict carries the keys the two loops read.                         *)

EngineMeans ==
    {Fin(-501, 100), Num(-5), Fin(-53, 100), Fin(-20, 100), Num(2), Fin(201, 100)}

\* (N_Points, Max_Velocity - Mean_Velocity) of a drawn zone: the road zone is
\* drawn in two sizes, so that zones agreeing on mean and % stable differ in
\* point count and maximum
EngineShapes(name) == IF name = "Roads" THEN {<<20, 0>>, <<40, 7>>} ELSE {<<20, 0>>}

\* stable points out of 20: 85 %, 90 %, 95 %, 100 %
EngineStable == {17, 18, 19, 20}

\* the keys of a calculate_stats dict that the two loops read
LoopKeys(s) ==
    [Infrastructure |-> s.Infrastructure,
     N_Points       |-> s.N_Points,
     Mean_Velocity  |-> s.Mean_Velocity,
     Max_Velocity   |-> s.Max_Velocity,
     Pct_Stable     |-> s.Pct_Stable]

\* the drawn dicts, and the dict calculate_stats returns for a file without rows
EngineStats(name) ==
    {LoopKeys(calculate_stats(<<>>, name))} \cup
    {[Infrastructure |-> name,
      N_Points       |-> sh[1],
      Mean_Velocity  |-> m,
      Max_Velocity   |-> Add(m, Num(sh[2])),
      Pct_Stable     |-> Pct(c * (sh[1] \div 20), sh[1])] :
        m \in EngineMeans, sh \in EngineShapes(name), c \in EngineStable}

EngineBaselines ==
    {[Infrastructure |-> Baseline, N_Points |-> 100, Mean_Velocity |-> m,
      Max_Velocity |-> Add(m, Num(7)), Pct_Stable |-> Pct(97, 100)] :
        m \in {Fin(-53, 100), Num(0)}}

EngineInit ==
    /\ disk = <<>>
    /\ script = "engine"
    /\ outcome = "none"
    /\ wrote = <<>>
    /\ faults = 0
    /\ \E r \in EngineStats("Railways"), o \in EngineStats("Roads"),
          h \in EngineStats("Harbour"), b \in EngineBaselines :
            stats = [z \in ClassSet \cup {Baseline} |->
                        IF z = "Railways" THEN r
                        ELSE IF z = "Roads" THEN o
                        ELSE IF z = "Harbour" THEN h ELSE b]
    /\ comparison = <<>>
    /\ risk_assessment = <<>>

\* STEP 4 of step3: lines 144-166
CompareBaseline ==
    /\ script = "engine" /\ outcome = "none"
    /\ comparison' = ComparisonLoop(stats)
    /\ outcome' = "compared"
    /\ UNCHANGED <<disk, script, wrote, faults, stats, risk_assessment>>

\* STEP 5 of step3: lines 181-207
AssessRisk ==
    /\ script = "engine" /\ outcome = "compared"
    /\ risk_assessment' = RiskLoop(stats)
    /\ outcome' = "completed"
    /\ UNCHANGED <<disk, script, wrote, faults, stats, comparison>>

EngineNext == CompareBaseline \/ AssessRisk

SpecEngine == EngineInit /\ [][EngineNext]_vars

-----------------------------------------------------------------------------
(* SpecStats: calculate_stats (lines 57-86) applied to a velocity column of  *)
(* up to MaxRows rows drawn from the values -3, -2, 0 and 2 mm/year.         *)

MaxRows == 11

StatVels == <<Num(-3), Num(-2), Num(0), Num(2)>>

\* the column with counts[i] rows of velocity StatVels[i], grouped by value
RECURSIVE Column(_, _)
Column(counts, i) ==
    IF i > Len(counts) THEN <<>>
    ELSE [r \in 1..counts[i] |-> [velocity |-> StatVels[i]]] \o Column(counts, i + 1)

StatsInit ==
    /\ \E a, b, c, d \in 0..MaxRows :
        /\ a + b + c + d <= MaxRows
        /\ disk = [f \in FileNames |->
                     IF f = EgmsCsv THEN Table(Column(<<a, b, c, d>>, 1)) ELSE NoFile]
    /\ script = "stats"
    /\ outcome = "none"
    /\ wrote = <<>>
    /\ faults = 0
    /\ stats = <<>>
    /\ comparison = <<>>
    /\ risk_assessment = <<>>

\* line 92
CalculateStats ==
    /\ script = "stats" /\ outcome = "none"
    /\ stats' = [z \in {Baseline} |-> calculate_stats(disk[EgmsCsv].rows, Baseline)]
    /\ outcome' = "calculated"
    /\ UNCHANGED <<disk, script, wrote, faults, comparison, risk_assessment>>

StatsNext == CalculateStats

SpecStats == StatsInit /\ [][StatsNext]_vars

-----------------------------------------------------------------------------
(* SpecScenario: step3 run on a railway zone of five points with velocities *)
(* -1, -3, 0, 2 and 5 mm/year, the rows of railways_points.csv in any order. *)

ScenarioVels == <<Num(-1), Num(-3), Num(0), Num(2), Num(5)>>

RowOrders(n) == {f \in [1..n -> 1..n] : \A i, j \in 1..n : f[i] = f[j] => i = j}

\* a row of a *_points.csv file as step2 writes it
CsvRow(v, class, radius) ==
    [velocity |-> v, index_right |-> 0, infra_type |-> class,
     buffer_m |-> radius, infrastructure |-> class]

ScenarioInit ==
    /\ \E f \in RowOrders(Len(ScenarioVels)) :
        disk = [x \in FileNames |->
                  IF x = PointsCsv["Railways"]
                  THEN Table([i \in 1..Len(ScenarioVels) |->
                                 CsvRow(ScenarioVels[f[i]], "Railways", BUFFER_RAILWAYS)])
                  ELSE IF x = PointsCsv["Roads"]
                  THEN Table(<<CsvRow(Num(-3), "Roads", BUFFER_ROADS)>>)
                  ELSE IF x = PointsCsv["Harbour"]
                  THEN Table(<<CsvRow(Num(2), "Harbour", 0)>>)
                  ELSE IF x = EgmsCsv
                  THEN Table([i \in 1..Len(ScenarioVels) |-> [velocity |-> ScenarioVels[i]]])
                  ELSE NoFile]
    /\ script = "none"
    /\ outcome = "none"
    /\ wrote = <<>>
    /\ faults = 0
    /\ stats = <<>>
    /\ comparison = <<>>
    /\ risk_assessment = <<>>

ScenarioNext == Step3

SpecScenario == ScenarioInit /\ [][ScenarioNext]_vars

-----------------------------------------------------------------------------
(* SpecRerun: the scripts are run again and again while new EGMS surveys    *)
(* are delivered: egms_dublin_clean.gpkg, the input of step2 (line 25), is  *)
(* replaced between runs.                                                   *)

\* surveys: a point in the rail and the road zone plus one in the harbour; a
\* harbour point only; a rail-and-road point only; a road point plus a
\* harbour point; no point at all
Surveys ==
    {<<[geometry |-> Point(14), velocity |-> Num(-3)],
       [geometry |-> Point(20), velocity |-> Num(2)]>>,
     <<[geometry |-> Point(20), velocity |-> Num(2)]>>,
     <<[geometry |-> Point(14), velocity |-> Num(2)]>>,
     <<[geometry |-> Point(16), velocity |-> Num(-3)],
       [geometry |-> Point(20), velocity |-> Num(-3)]>>,
     <<>>}

RerunInit ==
    /\ \E n \in 1..MaxFeatures, pts \in Surveys :
        disk = [f \in FileNames |->
                  IF f = InfraFile["Railways"] THEN Layer(SOURCE_CRS, Prefix(RailFeatures, n))
                  ELSE IF f = InfraFile["Roads"] THEN Layer(SOURCE_CRS, Prefix(RoadFeatures, n))
                  ELSE IF f = InfraFile["Harbour"] THEN Layer(SOURCE_CRS, Prefix(HarbourFeatures, n))
                  ELSE IF f = EgmsGpkg THEN Layer(SOURCE_CRS, pts)
                  ELSE IF f = EgmsCsv
                  THEN Table(<<[velocity |-> Num(-3)], [velocity |-> Num(2)]>>)
                  ELSE NoFile]
    /\ script = "none"
    /\ outcome = "none"
    /\ wrote = <<>>
    /\ faults = 0
    /\ stats = <<>>
    /\ comparison = <<>>
    /\ risk_assessment = <<>>

\* a new survey replaces egms_dublin_clean.gpkg; no script is running
NewData ==
    /\ \E pts \in Surveys :
        /\ pts # disk[EgmsGpkg].rows
        /\ disk' = [disk EXCEPT ![EgmsGpkg] = Layer(SOURCE_CRS, pts)]
    /\ script' = "survey"
    /\ outcome' = "delivered"
    /\ wrote' = <<EgmsGpkg>>
    /\ UNCHANGED <<faults, stats, comparison, risk_assessment>>

RerunNext == Step1 \/ Step2 \/ Step3 \/ NewData

SpecRerun == RerunInit /\ [][RerunNext]_vars

-----------------------------------------------------------------------------
(* Claims about the risk loop                                              *)

RiskRows == {risk_assessment[i] : i \in 1..Len(risk_assessment)}

\* the three rules of the specification, on the values a risk row reports
RuleLow(r) ==
    Le(Abs(r.Mean_Velocity), Num(2)) /\ Ge(PctNum(r.Pct_Stable), Num(95))
RuleModerate(r) ==
    Le(Abs(r.Mean_Velocity), Num(5)) /\ Ge(PctNum(r.Pct_Stable), Num(90))

\* C1: every non-baseline zone gets exactly one risk row, and its tier and
\* action are those of the first matching rule: LOW when |Mean_Velocity| <= 2
\* and Pct_Stable >= 95, else MODERATE when |Mean_Velocity| <= 5 and
\* Pct_Stable >= 90, else ELEVATED; the bounds 2, 5, 90, 95 are inclusive.
C1_RiskRules ==
    /\ Len(risk_assessment) \in {0, Len(Classes)}
    /\ outcome = "completed" => Len(risk_assessment) = Len(Classes)
    /\ \A i \in 1..Len(risk_assessment) :
        LET r == risk_assessment[i]
        IN  /\ r.Infrastructure = Classes[i]
            /\ r.Mean_Velocity = stats[Classes[i]].Mean_Velocity
            /\ r.Pct_Stable = stats[Classes[i]].Pct_Stable
            /\ r.Risk_Level =
                 (IF RuleLow(r) THEN "LOW"
                  ELSE IF RuleModerate(r) THEN "MODERATE" ELSE "ELEVATED")
            /\ r.Recommended_Action =
                 (CASE r.Risk_Level = "LOW" -> "Continue routine monitoring"
                    [] r.Risk_Level = "MODERATE" -> "Increased monitoring recommended"
                    [] r.Risk_Level = "ELEVATED" -> "Detailed investigation required")

\* a run that meets all four bounds exactly, and one zone just past a bound
C1_Witness ==
    /\ outcome = "completed"
    /\ \E a, b, c \in RiskRows :
        /\ Abs(a.Mean_Velocity) = Num(2) /\ PctNum(a.Pct_Stable) = Num(95)
        /\ a.Risk_Level = "LOW"
        /\ Abs(b.Mean_Velocity) = Num(5) /\ PctNum(b.Pct_Stable) = Num(90)
        /\ b.Risk_Level = "MODERATE"
        /\ Abs(c.Mean_Velocity) = Fin(501, 100) /\ PctNum(c.Pct_Stable) = Num(100)
        /\ c.Risk_Level = "ELEVATED"

\* C2: two zones with equal Mean_Velocity and equal Pct_Stable receive the same
\* tier and action, whatever their Max_Velocity, point count, name or position.
C2_RiskPure ==
    \A i, j \in 1..Len(risk_assessment) :
        LET a == risk_assessment[i]
            b == risk_assessment[j]
        IN  (/\ Eq(a.Mean_Velocity, b.Mean_Velocity)
             /\ Eq(PctNum(a.Pct_Stable), PctNum(b.Pct_Stable)))
            => /\ a.Risk_Level = b.Risk_Level
               /\ a.Recommended_Action = b.Recommended_Action

\* two zones that agree on (mean, % stable) and differ in everything else
C2_Witness ==
    \E i, j \in 1..Len(risk_assessment) :
        LET a == risk_assessment[i]
            b == risk_assessment[j]
        IN  /\ i < j
            /\ Eq(a.Mean_Velocity, b.Mean_Velocity)
            /\ Eq(PctNum(a.Pct_Stable), PctNum(b.Pct_Stable))
            /\ a.Max_Velocity # b.Max_Velocity
            /\ Abs(a.Max_Velocity) # Abs(b.Max_Velocity)
            /\ stats[Classes[i]].N_Points # stats[Classes[j]].N_Points
            /\ a.Infrastructure # b.Infrastructure
            /\ a.Risk_Level = "MODERATE"

-----------------------------------------------------------------------------
(* Claims about the baseline comparison and about empty inputs             *)

\* C3: for every non-baseline class, Difference = class mean - baseline mean,
\* and the Assessment is 'more stable' exactly when Difference < 0, 'less
\* stable' exactly when Difference > 0, 'same as baseline' exactly when
\* Difference == 0.
C3_Comparison ==
    \A i \in 1..Len(comparison) :
        LET e == comparison[i]
        IN  /\ e.Infrastructure = Classes[i]
            /\ e.Difference = Sub(stats[Classes[i]].Mean_Velocity,
                                  stats[Baseline].Mean_Velocity)
            /\ (e.Assessment = "More stable (less subsidence)") <=> Lt(e.Difference, Num(0))
            /\ (e.Assessment = "Less stable (more subsidence)") <=> Gt(e.Difference, Num(0))
            /\ (e.Assessment = "Same as baseline") <=> Eq(e.Difference, Num(0))

\* C4: when the baseline mean is exactly 0 the comparison fails (or marks
\* Pct_Difference undefined): no Pct_Difference that is infinite or nan is
\* computed, and no comparison file holds one.
C4_ZeroBaseline ==
    /\ \A i \in 1..Len(comparison) :
          comparison[i].Dublin_Baseline = Num(0) => IsFin(comparison[i].Pct_Difference)
    /\ disk[ComparisonFile].exists =>
          \A i \in 1..Len(disk[ComparisonFile].rows) :
              LET row == disk[ComparisonFile].rows[i]
              IN  row.Dublin_Baseline = Num(0) => IsFin(row.Pct_Difference)

\* C5: a run of step3 that reads a zone point set or a baseline set without
\* rows fails: it writes no file and produces no statistics record, no
\* comparison record and no risk tier.
C5_EmptySetFails ==
    (/\ script = "step3"
     /\ \E f \in Step3Inputs : disk[f].exists /\ disk[f].rows = <<>>)
    => /\ outcome # "completed"
       /\ wrote = <<>>
       /\ stats = <<>>
       /\ comparison = <<>>
       /\ risk_assessment = <<>>

-----------------------------------------------------------------------------
(* Claims about the outputs of a run                                       *)

\* the rows the current inputs put in the zone of class c (empty before step1)
ZoneRows(c) ==
    IF Missing(disk, {EgmsGpkg} \cup {DissolvedFile[k] : k \in ClassSet}) THEN <<>>
    ELSE ZonePoints(disk)[c].rows

\* the files a completed run of the last script writes
OutputsOf(s) ==
    IF s = "step1" THEN Step1Outputs
    ELSE IF s = "step2"
         THEN {PointsCsv[c] : c \in {k \in ClassSet : ZoneRows(k) # <<>>}} \cup
              {PointsGpkg[c] : c \in {k \in ClassSet : ZoneRows(k) # <<>>}}
    ELSE IF s = "step3" THEN Step3Outputs
    ELSE {}

\* C6: when a stage has ended, either it completed and wrote all of its output
\* files, or it aborted and wrote none of them.
C6_AllOrNothing ==
    script \in {"step1", "step2", "step3"} =>
        \/ outcome = "completed" /\ Range(wrote) = OutputsOf(script)
        \/ outcome # "completed" /\ wrote = <<>>

-----------------------------------------------------------------------------
(* Claims about the zone join                                              *)

\* position in ITM metres of a measurement point of the input file
Metres(row) == MetresPerUnit * (CHOOSE x \in {iv.lo : iv \in row.geometry} : TRUE)

\* the Buffer Zone polygon of class c, as step1 left it on disk
ZonePolygon(c) == UNION {z.geometry : z \in Range(disk[DissolvedFile[c]].rows)}

StrictlyInside(x, polygon) == \E iv \in polygon : iv.lo < x /\ x < iv.hi
OnBoundary(x, polygon) == \E iv \in polygon : x = iv.lo \/ x = iv.hi

\* distance in metres from x to the nearest feature of class c
Distance(x, c) ==
    LET D(iv) == IF x < MetresPerUnit * iv.lo THEN MetresPerUnit * iv.lo - x
                 ELSE IF x > MetresPerUnit * iv.hi THEN x - MetresPerUnit * iv.hi ELSE 0
        ds == {D(iv) : iv \in UNION {r.geometry : r \in Range(disk[InfraFile[c]].rows)}}
    IN  CHOOSE m \in ds : \A o \in ds : m <= o

\* (position, velocity) of the rows of a point file, in order; none if absent
Retained(f) ==
    IF disk[f].exists
    THEN [i \in 1..Len(disk[f].rows) |->
            <<CHOOSE x \in {iv.lo : iv \in disk[f].rows[i].geometry} : TRUE,
              disk[f].rows[i].velocity>>]
    ELSE <<>>

InputPoints == [i \in 1..Len(disk[EgmsGpkg].rows) |->
                   <<Metres(disk[EgmsGpkg].rows[i]), disk[EgmsGpkg].rows[i].velocity>>]

Step2Done == script = "step2" /\ outcome = "completed"

\* C7: for each class the join retains exactly the points strictly interior to
\* the class's Buffer Zone polygon: a point nearer than the radius to a feature
\* (40 m from a line buffered by 50 m) is retained, a point farther than the
\* radius from every feature (60 m) is excluded, and so is a point on the
\* boundary of the polygon.
C7_StrictlyWithin ==
    Step2Done =>
        \A c \in ClassSet :
            /\ Retained(PointsGpkg[c]) =
                 SelectSeq(InputPoints, LAMBDA p : StrictlyInside(p[1], ZonePolygon(c)))
            /\ \A p \in Range(InputPoints) :
                /\ OnBoundary(p[1], ZonePolygon(c)) => p \notin Range(Retained(PointsGpkg[c]))
                /\ c = "Railways" =>
                     /\ Distance(p[1], c) < 50 => p \in Range(Retained(PointsGpkg[c]))
                     /\ Distance(p[1], c) > 50 => \A q \in Range(Retained(PointsGpkg[c])) : q[1] # p[1]
                /\ c = "Roads" =>
                     /\ Distance(p[1], c) < 30 => p \in Range(Retained(PointsGpkg[c]))
                     /\ Distance(p[1], c) > 30 => \A q \in Range(Retained(PointsGpkg[c])) : q[1] # p[1]

\* one rail line; a point 40 m from it is in the rail file, a point 50 m from
\* it (on the boundary) is not
C7_Witness ==
    /\ Step2Done
    /\ Len(disk[InfraFile["Railways"]].rows) = 1
    /\ \E p, q \in Range(InputPoints) :
        /\ Distance(p[1], "Railways") = 40
        /\ p \in Range(Retained(PointsGpkg["Railways"]))
        /\ Distance(q[1], "Railways") = 50
        /\ OnBoundary(q[1], ZonePolygon("Railways"))
        /\ q \notin Range(Retained(PointsGpkg["Railways"]))

\* a class is empty when no measurement point is strictly inside its polygon
EmptyClass(c) == \A p \in Range(InputPoints) : ~StrictlyInside(p[1], ZonePolygon(c))

\* C8: a class whose buffer contains no point is not an error: step2 still
\* completes, writes the point files of the other classes, and writes no
\* CSV and no GeoPackage for the empty class.
C8_EmptyClassSkipped ==
    (script = "step2" /\ ~Missing(disk, {DissolvedFile[c] : c \in ClassSet}))
    => /\ outcome = "completed"
       /\ \A c \in ClassSet :
            IF EmptyClass(c)
            THEN /\ PointsCsv[c] \notin Range(wrote) /\ PointsGpkg[c] \notin Range(wrote)
                 /\ ~disk[PointsCsv[c]].exists /\ ~disk[PointsGpkg[c]].exists
            ELSE /\ PointsCsv[c] \in Range(wrote) /\ PointsGpkg[c] \in Range(wrote)
                 /\ disk[PointsCsv[c]].exists /\ disk[PointsGpkg[c]].exists

\* the harbour is empty, the rail and road zones are not, and step2 completed
C8_Witness ==
    /\ Step2Done
    /\ EmptyClass("Harbour") /\ ~EmptyClass("Railways") /\ ~EmptyClass("Roads")
    /\ Range(wrote) = {PointsCsv["Railways"], PointsCsv["Roads"],
                       PointsGpkg["Railways"], PointsGpkg["Roads"]}

\* C9: membership is decided per class: a point inside the polygons of several
\* classes is in the point set of each of them, every copy tagged with that
\* class's label.
C9_IndependentZones ==
    Step2Done =>
        \A c \in ClassSet :
            /\ \A p \in Range(InputPoints) :
                  StrictlyInside(p[1], ZonePolygon(c)) =>
                      /\ p \in Range(Retained(PointsGpkg[c]))
                      /\ \E r \in Range(disk[PointsCsv[c]].rows) :
                            r.velocity = p[2] /\ r.infrastructure = c
            /\ disk[PointsGpkg[c]].exists =>
                  \A r \in Range(disk[PointsGpkg[c]].rows) : r.infrastructure = c
            /\ disk[PointsCsv[c]].exists =>
                  /\ \A r \in Range(disk[PointsCsv[c]].rows) : r.infrastructure = c
                  /\ Len(disk[PointsCsv[c]].rows) = Len(disk[PointsGpkg[c]].rows)

\* one point inside both the rail and the road polygon, in both files
C9_Witness ==
    /\ Step2Done
    /\ \E p \in Range(InputPoints) :
        /\ StrictlyInside(p[1], ZonePolygon("Railways"))
        /\ StrictlyInside(p[1], ZonePolygon("Roads"))
        /\ p \in Range(Retained(PointsGpkg["Railways"]))
        /\ p \in Range(Retained(PointsGpkg["Roads"]))
        /\ \E r \in Range(disk[PointsGpkg["Railways"]].rows) : r.infrastructure = "Railways"
        /\ \E r \in Range(disk[PointsGpkg["Roads"]].rows) : r.infrastructure = "Roads"

-----------------------------------------------------------------------------
(* Claims about the percentages of a statistics record                      *)

\* the velocity column a statistics record of SpecStats was computed from
StatsColumn == [i \in 1..Len(disk[EgmsCsv].rows) |-> disk[EgmsCsv].rows[i].velocity]

NumberOf(vs, v) == Cardinality({i \in 1..Len(vs) : vs[i] = v})

\* C10 (as stated): for every non-empty point set, Pct_Subsiding +
\* Pct_Uplifting <= 100, on the two doubles the record holds, added as the
\* program's arithmetic adds them.
C10_SumAtMost100 ==
    \A z \in DOMAIN stats :
        stats[z].N_Points > 0 =>
            PctSumWithin(stats[z].Pct_Subsiding, stats[z].Pct_Uplifting, 1)

\* C10 (amended): for every non-empty point set, Pct_Subsiding is the share of
\* points with velocity < 0 and Pct_Uplifting the share with velocity > 0 (a
\* point with velocity 0 is in neither), Pct_Stable the share with
\* -2 <= velocity <= 2; the two counts sum to at most N_Points, and the two
\* doubles sum to at most 100 + 2^-43 (m = 16 units of 2^-47).
C10_PctSum ==
    \A z \in DOMAIN stats :
        LET s == stats[z]
            vs == StatsColumn
            n == Len(vs)
        IN  s.N_Points > 0 =>
              /\ s.N_Points = n
              /\ s.Pct_Subsiding = Pct(NumberOf(vs, Num(-3)) + NumberOf(vs, Num(-2)), n)
              /\ s.Pct_Uplifting = Pct(NumberOf(vs, Num(2)), n)
              /\ s.Pct_Stable = Pct(n - NumberOf(vs, Num(-3)), n)
              /\ s.Pct_Subsiding.c + s.Pct_Uplifting.c = n - NumberOf(vs, Num(0))
              /\ Le(Add(PctNum(s.Pct_Subsiding), PctNum(s.Pct_Uplifting)), Num(100))
              /\ PctSumWithin(s.Pct_Subsiding, s.Pct_Uplifting, 16)

\* eleven points, two at -2 and nine at +2: the two doubles add up to more than
\* 100, every point is also stable, and the three percentages sum to 200
C10_Witness ==
    /\ outcome = "calculated"
    /\ stats[Baseline].N_Points = 11
    /\ stats[Baseline].Pct_Subsiding = Pct(2, 11)
    /\ stats[Baseline].Pct_Uplifting = Pct(9, 11)
    /\ stats[Baseline].Pct_Stable = Pct(11, 11)
    /\ ~PctSumWithin(stats[Baseline].Pct_Subsiding, stats[Baseline].Pct_Uplifting, 1)
    /\ Gt(Add(Add(PctNum(stats[Baseline].Pct_Subsiding),
                  PctNum(stats[Baseline].Pct_Uplifting)),
              PctNum(stats[Baseline].Pct_Stable)), Num(100))

-----------------------------------------------------------------------------
(* Claims about Range, the worked scenario and the buffer zones             *)

\* C11: in every statistics record of a non-empty point set, and in every such
\* row of the written summary table (values rounded to two decimals), Range
\* equals Max_Velocity minus Min_Velocity exactly.
C11_RangeExact ==
    /\ \A z \in DOMAIN stats :
          stats[z].N_Points > 0 =>
              Eq(stats[z].Range, Sub(stats[z].Max_Velocity, stats[z].Min_Velocity))
    /\ disk[SummaryFile].exists =>
          \A i \in 1..Len(disk[SummaryFile].rows) :
              LET row == disk[SummaryFile].rows[i]
              IN  row.N_Points > 0 =>
                    Eq(row.Range, Sub(row.Max_Velocity, row.Min_Velocity))

\* C12: a zone whose point velocities are [-1, -3, 0, 2, 5] yields Mean 0.6,
\* Median 0, Pct_Stable 60 (3 of 5), Pct_Subsiding 40 and Pct_Uplifting 40 (the
\* three doubles are exactly 60.0, 40.0 and 40.0), and is classified ELEVATED:
\* the mean passes both rules, Pct_Stable is below 95 and below 90.
C12_Scenario ==
    (script = "step3" /\ outcome = "completed") =>
        LET s == stats["Railways"]
            r == risk_assessment[1]
        IN  /\ s.N_Points = 5
            /\ s.Mean_Velocity = Fin(3, 5)
            /\ s.Median_Velocity = Num(0)
            /\ PctNum(s.Pct_Stable) = Num(60) /\ F64Pct(s.Pct_Stable).E = 0
            /\ PctNum(s.Pct_Subsiding) = Num(40) /\ F64Pct(s.Pct_Subsiding).E = 0
            /\ PctNum(s.Pct_Uplifting) = Num(40) /\ F64Pct(s.Pct_Uplifting).E = 0
            /\ r.Infrastructure = "Railways"
            /\ r.Risk_Level = "ELEVATED"
            /\ Le(Abs(r.Mean_Velocity), Num(2))
            /\ Lt(PctNum(r.Pct_Stable), Num(90))
            /\ disk[SummaryFile].rows[2].Mean_Velocity = Fin(3, 5)
            /\ disk[SummaryFile].rows[2].Pct_Stable = Num(60)
            /\ disk[RiskFile].rows[1].Risk_Level = "ELEVATED"

\* the run on the rows in the order 5, 0, -3, 2, -1
C12_Witness ==
    /\ script = "step3" /\ outcome = "completed"
    /\ [i \in 1..5 |-> disk[PointsCsv["Railways"]].rows[i].velocity]
         = <<Num(5), Num(0), Num(-3), Num(2), Num(-1)>>
    /\ stats["Railways"].Pct_Stable = Pct(3, 5)
    /\ risk_assessment[1].Risk_Level = "ELEVATED"

\* positions probed on the axis: every 5 m from -80 m to 320 m
Probes == {5 * k : k \in -16..64}

Covered(x, polygon) == \E iv \in polygon : iv.lo <= x /\ x <= iv.hi

RadiusOf(c) ==
    IF c = "Railways" THEN BUFFER_RAILWAYS
    ELSE IF c = "Roads" THEN BUFFER_ROADS ELSE BUFFER_HARBOUR

Step1Done == script = "step1" /\ outcome = "completed"

\* C13: after step1, every class with at least one input feature has exactly
\* one dissolved Buffer Zone, in the metric system: it covers exactly the
\* positions within the class radius of some feature (for the Harbour, radius
\* 0: exactly the union of the original features), its parts do not touch one
\* another, and buffer_m records the radius (0 for the Harbour).
C13_OneZonePerClass ==
    Step1Done =>
        \A c \in ClassSet :
            LET zone == disk[DissolvedFile[c]]
            IN  Len(disk[InfraFile[c]].rows) >= 1 =>
                  /\ zone.exists /\ zone.crs = TARGET_CRS
                  /\ Len(zone.rows) = 1
                  /\ zone.rows[1].infra_type = c
                  /\ zone.rows[1].buffer_m = RadiusOf(c)
                  /\ \A x \in Probes :
                        Covered(x, zone.rows[1].geometry) <=> Distance(x, c) <= RadiusOf(c)
                  /\ \A a, b \in zone.rows[1].geometry :
                        a # b => (a.hi < b.lo \/ b.hi < a.lo)

\* two features per class: the rail buffers [-10, 90] and [50, 150] overlap and
\* the harbour basins [190, 220] and [220, 250] touch; each class has one zone
C13_Witness ==
    /\ Step1Done
    /\ \A c \in ClassSet : Len(disk[InfraFile[c]].rows) = 2
    /\ Len(disk[BufferFile["Railways"]].rows) = 2
    /\ disk[DissolvedFile["Railways"]].rows[1].geometry = {Interval(-10, 150)}
    /\ disk[DissolvedFile["Harbour"]].rows[1].geometry = {Interval(190, 250)}
    /\ disk[DissolvedFile["Harbour"]].rows[1].buffer_m = 0

-----------------------------------------------------------------------------
(* Claims about repeated runs                                              *)

Stages == {"step1", "step2", "step3"}

\* the files a stage reads
InputsOf(s) ==
    IF s = "step1" THEN {InfraFile[c] : c \in ClassSet}
    ELSE IF s = "step2" THEN {EgmsGpkg} \cup {DissolvedFile[c] : c \in ClassSet}
    ELSE Step3Inputs

\* the data directory with nothing in it but the input files of stage s
InputsOnly(s, d) == [f \in FileNames |-> IF f \in InputsOf(s) THEN d[f] ELSE NoFile]

\* what stage s does when started on the data directory d
PlanOn(s, d) ==
    IF s = "step1" THEN Step1Plan(d)
    ELSE IF s = "step2" THEN Step2Plan(d)
    ELSE Step3Plan(d, Step3Mem(d))

C16_FreshPoints ==
    [][(Step2Done /\ script' = "step3" /\ outcome' = "completed") =>
          \A i \in 1..Len(Classes) :
              LET c == Classes[i]
                  produced == DropGeometry(ZonePoints(disk)[c]).rows
              IN  /\ stats'[c] = calculate_stats(produced, c)
                  /\ risk_assessment'[i] = RiskEntry(calculate_stats(produced, c))]_vars

-----------------------------------------------------------------------------
(* Claims about the measurement points                                     *)

\* C15: the three calls of find_points_in_buffer leave the reprojected point
\* set as it was (same rows, same velocities, no 'infrastructure' column), and
\* after the run the input file is as before, every retained point is an
\* input point with its input velocity, and the rows of a class's files carry
\* that class's label and no other.
C15_PointsNotMutated ==
    /\ ~Missing(disk, InputsOf("step2")) =>
          LET egms_itm == to_crs(disk[EgmsGpkg], TARGET_CRS)
              calls == Step2Calls(disk, egms_itm, 1)
          IN  \A i \in 1..Len(calls) :
                /\ calls[i].given = egms_itm
                /\ calls[i].left = egms_itm
                /\ \A r \in Range(calls[i].left.rows) : DOMAIN r = {"geometry", "velocity"}
                /\ \A r \in Range(calls[i].returned.rows) :
                      /\ r.infrastructure = Classes[i]
                      /\ \E p \in Range(egms_itm.rows) :
                            p.geometry = r.geometry /\ p.velocity = r.velocity
    /\ Step2Done =>
          /\ \A r \in Range(disk[EgmsGpkg].rows) : DOMAIN r = {"geometry", "velocity"}
          /\ EgmsGpkg \notin Range(wrote)
          /\ \A c \in ClassSet :
                /\ Range(Retained(PointsGpkg[c])) \subseteq Range(InputPoints)
                /\ disk[PointsGpkg[c]].exists =>
                      \A r \in Range(disk[PointsGpkg[c]].rows) : r.infrastructure = c
                /\ disk[PointsCsv[c]].exists =>
                      \A r \in Range(disk[PointsCsv[c]].rows) :
                          /\ r.infrastructure = c
                          /\ r.velocity \in {p[2] : p \in Range(InputPoints)}

\* a run in which each of the three calls returned a point: one point lies in
\* the rail and in the road zone, another in the harbour
C15_Witness ==
    /\ Step2Done
    /\ Len(disk[EgmsGpkg].rows) = 2
    /\ \A c \in ClassSet : disk[PointsGpkg[c]].exists /\ PointsGpkg[c] \in Range(wrote)
    /\ Range(Retained(PointsGpkg["Railways"])) \cap Range(Retained(PointsGpkg["Roads"])) # {}
    /\ disk[EgmsGpkg].rows[1].velocity # disk[EgmsGpkg].rows[2].velocity

=============================================================================
